---- MODULE Spec2Model ----
(***************************************************************************)
(* EHash: a hash map with separate chaining (lib/EHash.h) over the singly  *)
(* linked list ELinkedList (lib/ELinkedList.h, lib/ENode.h), together with *)
(* the mixed-workload harness of tests/test_ehash.cpp that drives EHash    *)
(* and std::unordered_map with the same operation sequence.                *)
(*                                                                         *)
(* A chain is modelled as the sequence of the Pairs of its nodes, head     *)
(* first.  A pointer into a chain is the index of the node (0 = nullptr).  *)
(***************************************************************************)
EXTENDS Integers, Sequences, FiniteSets

(* ------------------------------ bounds --------------------------------- *)
\* keys are 1..MaxKey
MaxKey == 3
\* values passed to insert by a caller are 1..MaxValue
MaxValue == 2
\* the constructor argument `size` ranges over 1..MaxInitBuckets
MaxInitBuckets == 2
\* a public insert is only started while buckets.size() <= MaxBuckets
MaxBuckets == 4
\* the harness scale N (number of operations of one bench run)
BenchN == 5
MaxLen == 3
MaxElem == 2

Keys == 1..MaxKey
Values == 1..MaxValue
\* std::hash<K> is implementation-defined; the hash functions considered:
\* the identity (std::hash<int> of libstdc++ and libc++), a constant hash
\* (every key collides in every table) and k div 2 (neighbouring keys keep
\* colliding whatever the bucket count)
HashFunctions == {[k \in Keys |-> k], [k \in Keys |-> 0], [k \in Keys |-> k \div 2]}

(* --------------------------- program constants ------------------------- *)
\* maxLoad = 0.75f, kept as the exact fraction MaxLoadNum / MaxLoadDen
MaxLoadNum == 3
MaxLoadDen == 4

VARIABLES
    buckets,      \* EHash::buckets: sequence of chains (index i+1 = bucket i)
    numElements,  \* EHash::numElements
    hash,         \* std::hash<K>: the (deterministic) hash value of each key
    smap,         \* the reference std::unordered_map driven by the same calls
    op,           \* the last public call: [name, key, value]
    ret,          \* what the last call returned: [found, value]
    refRet,       \* what the same call returned on the reference map
    trace,        \* observations of the last insert: rehash() executions
    i,            \* bench loop counter
    checksum,     \* bench_ehash checksum (c1)
    refChecksum,  \* bench_stdmap checksum (c2)
    liveNodes,    \* the heap: number of ENodes allocated by new and not deleted
    stack,        \* the call stack of a running insert (statement-level runs)
    chain,        \* an ELinkedList used on its own: its nodes' values, head first
    listOp        \* the last call on chain: [name, arg, ret]

vars == <<buckets, numElements, hash, smap, op, ret, refRet, trace, i,
          checksum, refChecksum, liveNodes, stack, chain, listOp>>

\* the state outside the map and its caller
others == <<stack, chain, listOp>>

(* ------------------------------ helpers -------------------------------- *)
Max(a, b) == IF a >= b THEN a ELSE b

\* struct Pair { K key; V value; }
Pair(key, value) == [key |-> key, value |-> value]

\* the lambda [&](const Pair& p) { return p.key == key; } as the set of the
\* Pairs it accepts
KeyEq(key) == [key : {key}, value : Nat]

(* ----------------------------- ELinkedList ----------------------------- *)
\* ELinkedList::insert: new node becomes the head
ListInsert(list, value) == <<value>> \o list

\* the scan loop shared by find and remove: index of the first node at or
\* after cur that satisfies pred, 0 when the scan runs off the end
RECURSIVE ListScan(_, _, _)
ListScan(list, pred, cur) ==
    IF cur > Len(list) THEN 0
    ELSE IF list[cur] \in pred THEN cur
    ELSE ListScan(list, pred, cur + 1)

\* ELinkedList::find with the scan loop left out: only the head is tested
ListFindHeadOnly(list, pred) ==
    IF list # <<>> /\ Head(list) \in pred THEN 1 ELSE 0

\* ELinkedList::find: pointer to the first matching value, or nullptr
ListFind(list, pred) == ListScan(list, pred, 1)

\* ELinkedList::remove that unlinks the head node whichever node matched
\* (`head = head->next` in place of the prev/cur relinking)
ListRemoveHead(list, pred) ==
    LET cur == ListScan(list, pred, 1)
    IN  IF cur = 0
        THEN [removed |-> FALSE, list |-> list]
        ELSE [removed |-> TRUE, list |-> Tail(list)]

\* ELinkedList::remove whose scan does not stop at the first match (the
\* `return true` inside the loop deferred): the last matching node goes
ListRemoveLast(list, pred) ==
    LET matches == {j \in 1..Len(list) : list[j] \in pred}
    IN  IF matches = {}
        THEN [removed |-> FALSE, list |-> list]
        ELSE LET cur == CHOOSE j \in matches : \A k \in matches : k <= j
             IN  [removed |-> TRUE,
                  list |-> SubSeq(list, 1, cur - 1) \o SubSeq(list, cur + 1, Len(list))]

\* ELinkedList::remove: unlink and delete the first matching node
ListRemove(list, pred) ==
    LET cur == ListScan(list, pred, 1)
    IN  IF cur = 0
        THEN [removed |-> FALSE, list |-> list]
        ELSE [removed |-> TRUE,
              list |-> SubSeq(list, 1, cur - 1) \o SubSeq(list, cur + 1, Len(list))]

(* -------------------------------- EHash -------------------------------- *)
\* the sequence of all entries of a bucket array, bucket by bucket, each
\* chain head first: the order in which rehash() walks `old`
RECURSIVE Flatten(_)
Flatten(bs) == IF bs = <<>> THEN <<>> ELSE Head(bs) \o Flatten(Tail(bs))

\* the stored pairs of a bucket array with their multiplicities
BagOf(bs) ==
    LET all == Flatten(bs)
    IN  [p \in {all[j] : j \in 1..Len(all)} |->
            Cardinality({j \in 1..Len(all) : all[j] = p})]

\* total number of entries stored across all chains
EntryCount(bs) == Len(Flatten(bs))

\* EHash::hashKey on the bucket array bs; bucket idx is element idx + 1 of
\* the sequence
hashKey(bs, key) == (hash[key] % Len(bs)) + 1

\* the load-factor test against the inverted threshold (4/3 for 3/4)
loadExceededInverted(m) == MaxLoadNum * m.numElements > MaxLoadDen * Len(m.buckets)

\* the load-factor test on the projected count, (numElements + 1) / size
loadExceededProjected(m) ==
    MaxLoadDen * (m.numElements + 1) > MaxLoadNum * Len(m.buckets)

\* the load-factor test of insert: (float)numElements / buckets.size() > maxLoad
\* (exact in float for the counts of this model: both operands are below 2^24
\* and 0.75 is representable)
loadExceeded(m) == MaxLoadDen * m.numElements > MaxLoadNum * Len(m.buckets)

\* the nodes rehash() visits: every chain of `old`, head to tail
\* (variant: the inner while loop left out, only each chain's head is visited)
oldEntriesHeads(old) ==
    Flatten([b \in 1..Len(old) |-> IF old[b] = <<>> THEN <<>> ELSE <<Head(old[b])>>])

oldEntries(old) == Flatten(old)

\* insertAt that finds the existing key and returns without storing the new
\* value
insertAtStale(m, key, value, idx, found) ==
    IF found # 0
    THEN [m EXCEPT !.found = TRUE]
    ELSE [m EXCEPT !.buckets[idx] = ListInsert(@, Pair(key, value)),
                   !.allocs = @ + 1,
                   !.numElements = @ + 1,
                   !.found = FALSE]

\* the second half of EHash::insert, once idx = hashKey(key) and
\* found = buckets[idx].find(...) are known: overwrite the value found, or
\* put a new pair at the bucket head (one new ENode) and count it
insertAt(m, key, value, idx, found) ==
    IF found # 0
    THEN [m EXCEPT !.buckets[idx][found].value = value, !.found = TRUE]
    ELSE [m EXCEPT !.buckets[idx] = ListInsert(@, Pair(key, value)),
                   !.allocs = @ + 1,
                   !.numElements = @ + 1,
                   !.found = FALSE]

\* EHash::insert after its load-factor check
insertIn(m, key, value) ==
    insertAt(m, key, value, hashKey(m.buckets, key),
             ListFind(m.buckets[hashKey(m.buckets, key)], KeyEq(key)))

\* std::vector<ELinkedList<Pair>>(size): `size` empty chains
RECURSIVE EmptyBuckets(_)
EmptyBuckets(size) ==
    IF size = 0 THEN <<>> ELSE Append(EmptyBuckets(size - 1), <<>>)

\* the first three statements of rehash(): old = buckets; buckets.clear();
\* buckets.resize(old.size() * 2).  numElements is left as it is.
rehashEnter(m) ==
    [m EXCEPT !.buckets = EmptyBuckets(2 * Len(m.buckets)),
              !.depth = @ + 1,
              !.maxDepth = Max(@, m.depth + 1),
              !.rehashCalls = @ + 1]

\* the return of rehash() to the insert that called it; m is the map as
\* rehash() was entered, done the map after its loops.  The local vector
\* `old` is destroyed here; ELinkedList declares no destructor, so none of
\* the nodes of the old chains is deleted.
rehashExit(m, done) ==
    [done EXCEPT !.depth = @ - 1,
                 !.log = @ \cup {[entered |-> BagOf(m.buckets),
                                  resumed |-> BagOf(done.buckets),
                                  oldCount |-> Len(m.buckets),
                                  newCount |-> Len(done.buckets)]}]

RECURSIVE insert(_, _, _), rehash(_), reinsert(_, _)

\* EHash::insert with idx = hashKey(key) computed before the load-factor
\* check, against the bucket count the call was entered with
insertIdxFirst(m, key, value) ==
    insertAt(IF loadExceeded(m) THEN rehash(m) ELSE m, key, value,
             hashKey(m.buckets, key),
             ListFind((IF loadExceeded(m) THEN rehash(m) ELSE m).buckets[
                          hashKey(m.buckets, key)], KeyEq(key)))

\* EHash::insert on the map state m (buckets, numElements, the local `found`
\* and the observation fields depth, maxDepth, rehashCalls, log)
insert(m, key, value) ==
    insertIn(IF loadExceeded(m) THEN rehash(m) ELSE m, key, value)

\* the two nested loops of rehash(): insert every node of `old` in order
reinsert(m, entries) ==
    IF entries = <<>> THEN m
    ELSE reinsert(insert(m, Head(entries).key, Head(entries).value), Tail(entries))

\* EHash::rehash
rehash(m) == rehashExit(m, reinsert(rehashEnter(m), oldEntries(m.buckets)))

\* EHash::find: pointer to the value, or nullptr
find(bs, key) ==
    LET idx == hashKey(bs, key)
        found == ListFind(bs[idx], KeyEq(key))
    IN  IF found # 0
        THEN [found |-> TRUE, value |-> bs[idx][found].value]
        ELSE [found |-> FALSE, value |-> 0]

\* EHash::remove with `return true` reached on both paths
removeAlwaysTrue(bs, n, key) ==
    LET idx == hashKey(bs, key)
        r == ListRemove(bs[idx], KeyEq(key))
    IN  IF r.removed
        THEN [buckets |-> [bs EXCEPT ![idx] = r.list], numElements |-> n - 1,
              removed |-> TRUE]
        ELSE [buckets |-> bs, numElements |-> n, removed |-> TRUE]

\* EHash::remove that forgets numElements--
removeNoDecrement(bs, n, key) ==
    LET idx == hashKey(bs, key)
        r == ListRemove(bs[idx], KeyEq(key))
    IN  IF r.removed
        THEN [buckets |-> [bs EXCEPT ![idx] = r.list], numElements |-> n,
              removed |-> TRUE]
        ELSE [buckets |-> bs, numElements |-> n, removed |-> FALSE]

\* EHash::remove with numElements-- placed before the if
removeAlwaysDecrement(bs, n, key) ==
    LET idx == hashKey(bs, key)
        r == ListRemove(bs[idx], KeyEq(key))
    IN  IF r.removed
        THEN [buckets |-> [bs EXCEPT ![idx] = r.list], numElements |-> n - 1,
              removed |-> TRUE]
        ELSE [buckets |-> bs, numElements |-> n - 1, removed |-> FALSE]

\* EHash::remove on the bucket array bs and the counter n
remove(bs, n, key) ==
    LET idx == hashKey(bs, key)
        r == ListRemove(bs[idx], KeyEq(key))
    IN  IF r.removed
        THEN [buckets |-> [bs EXCEPT ![idx] = r.list], numElements |-> n - 1,
              removed |-> TRUE]
        ELSE [buckets |-> bs, numElements |-> n, removed |-> FALSE]

(* ------------------ the reference map (std::unordered_map) ------------- *)
\* smap[key] = value
RefAssign(ref, key, value) ==
    [k \in DOMAIN ref \cup {key} |-> IF k = key THEN value ELSE ref[k]]

\* smap.find(key)
RefFind(ref, key) ==
    IF key \in DOMAIN ref THEN [found |-> TRUE, value |-> ref[key]]
    ELSE [found |-> FALSE, value |-> 0]

\* smap.erase(key)
RefErase(ref, key) == [k \in DOMAIN ref \ {key} |-> ref[k]]

NoTrace == [entryBuckets |-> 0, entryElements |-> 0, entryEntries |-> 0,
            maxDepth |-> 0, rehashCalls |-> 0, log |-> {}]
Void == [found |-> FALSE, value |-> 0]

(* ------------------------------ the calls ------------------------------ *)
\* the state of the map when a public insert starts
CallState == [buckets |-> buckets, numElements |-> numElements, found |-> FALSE,
              allocs |-> 0,
              depth |-> 0, maxDepth |-> 0, rehashCalls |-> 0, log |-> {}]

\* emap.insert(key, value) and smap[key] = value
DoInsert(key, value) ==
    LET r == insert(CallState, key, value)
    IN  /\ buckets' = r.buckets
        /\ numElements' = r.numElements
        /\ liveNodes' = liveNodes + r.allocs
        /\ smap' = RefAssign(smap, key, value)
        /\ op' = [name |-> "insert", key |-> key, value |-> value]
        /\ ret' = [found |-> r.found, value |-> 0]
        /\ refRet' = [found |-> key \in DOMAIN smap, value |-> 0]
        /\ trace' = [entryBuckets |-> Len(buckets),
                     entryElements |-> numElements,
                     entryEntries |-> EntryCount(buckets),
                     maxDepth |-> r.maxDepth,
                     rehashCalls |-> r.rehashCalls,
                     log |-> r.log]

\* find that starts with insert's load-factor check and resizes
DoFindResizing(key) ==
    LET m == IF loadExceeded(CallState) THEN rehash(CallState) ELSE CallState
    IN  /\ ret' = find(m.buckets, key)
        /\ refRet' = RefFind(smap, key)
        /\ op' = [name |-> "find", key |-> key, value |-> 0]
        /\ trace' = NoTrace
        /\ buckets' = m.buckets
        /\ numElements' = m.numElements
        /\ liveNodes' = liveNodes + m.allocs
        /\ UNCHANGED smap

\* emap.find(key) and smap.find(key)
DoFind(key) ==
    /\ ret' = find(buckets, key)
    /\ refRet' = RefFind(smap, key)
    /\ op' = [name |-> "find", key |-> key, value |-> 0]
    /\ trace' = NoTrace
    /\ UNCHANGED <<buckets, numElements, liveNodes, smap>>

\* emap.remove(key) and smap.erase(key)
DoRemove(key) ==
    LET r == remove(buckets, numElements, key)
    IN  /\ buckets' = r.buckets
        /\ numElements' = r.numElements
        /\ liveNodes' = IF r.removed THEN liveNodes - 1 ELSE liveNodes
        /\ smap' = RefErase(smap, key)
        /\ op' = [name |-> "remove", key |-> key, value |-> 0]
        /\ ret' = [found |-> r.removed, value |-> 0]
        /\ refRet' = [found |-> key \in DOMAIN smap, value |-> 0]
        /\ trace' = NoTrace

\* explicit EHash(size_t size) : buckets(size) {}
Construct(size) ==
    /\ buckets = EmptyBuckets(size)
    /\ numElements = 0
    /\ hash \in HashFunctions
    /\ smap = <<>>
    /\ op = [name |-> "construct", key |-> 0, value |-> 0]
    /\ ret = Void
    /\ refRet = Void
    /\ trace = NoTrace
    /\ i = 0
    /\ checksum = 0
    /\ refChecksum = 0
    /\ liveNodes = 0
    /\ stack = <<>>
    /\ chain = <<>>
    /\ listOp = [name |-> "none", arg |-> {}, ret |-> 0, before |-> <<>>]

(* ---------------- any caller: arbitrary public operations -------------- *)
Init == \E size \in 1..MaxInitBuckets : Construct(size)

Insert == \E key \in Keys, value \in Values :
    /\ Len(buckets) <= MaxBuckets
    /\ DoInsert(key, value)
    /\ UNCHANGED <<hash, i, checksum, refChecksum, others>>

Find == \E key \in Keys :
    DoFind(key) /\ UNCHANGED <<hash, i, checksum, refChecksum, others>>

Remove == \E key \in Keys :
    DoRemove(key) /\ UNCHANGED <<hash, i, checksum, refChecksum, others>>

Next == Insert \/ Find \/ Remove

Spec == Init /\ [][Next]_vars

(* ------------------- a caller that only ever inserts ------------------- *)
SpecInserts == Init /\ [][Insert]_vars

(* ----------- the harness: bench_ehash and bench_stdmap in step --------- *)
\* both runs seed the same generator, so iteration i of the two loops draws
\* the same (op, key); the draw is any of the three branches and any key
\* EHash<int, int> emap(N / 2)
BenchInit == Construct(BenchN \div 2)

\* op < 50: emap.insert(key, key * 2); smap[key] = key * 2
BenchInsert == \E key \in Keys :
    /\ i < BenchN
    /\ DoInsert(key, key * 2)
    /\ i' = i + 1
    /\ UNCHANGED <<hash, checksum, refChecksum, others>>

\* op < 90: find, and add the value found to the checksum
BenchFind == \E key \in Keys :
    /\ i < BenchN
    /\ DoFind(key)
    /\ checksum' = IF ret'.found THEN checksum + ret'.value ELSE checksum
    /\ refChecksum' = IF refRet'.found THEN refChecksum + refRet'.value
                      ELSE refChecksum
    /\ i' = i + 1
    /\ UNCHANGED <<hash, others>>

\* else: emap.remove(key); smap.erase(key)
BenchRemove == \E key \in Keys :
    /\ i < BenchN
    /\ DoRemove(key)
    /\ i' = i + 1
    /\ UNCHANGED <<hash, checksum, refChecksum, others>>

BenchNext == BenchInsert \/ BenchFind \/ BenchRemove

SpecBench == BenchInit /\ [][BenchNext]_vars

(* --------------- a caller that may also construct EHash(0) ------------- *)
\* the constructor takes any size_t and stores it unchecked
CtorInit == \E size \in 0..MaxInitBuckets : Construct(size)

\* insert, find or remove on a map with no bucket: after insert's load test
\* (0.0f / 0 is NaN, and NaN > maxLoad is false) each of them evaluates
\* std::hash<K>{}(key) % buckets.size() with buckets.size() = 0, which is
\* undefined.  Whatever the build makes of it (a trap, or an index into the
\* empty vector), the call has left defined behaviour; the model records
\* that and follows the run no further.
UndefinedIndex == \E key \in Keys :
    /\ Len(buckets) = 0
    /\ op.name # "undefined"
    /\ op' = [name |-> "undefined", key |-> key, value |-> 0]
    /\ UNCHANGED <<buckets, numElements, hash, smap, ret, refRet, trace, i,
                   checksum, refChecksum, liveNodes, others>>

CtorInsert == Len(buckets) >= 1 /\ Insert
CtorFind == Len(buckets) >= 1 /\ Find
CtorRemove == Len(buckets) >= 1 /\ Remove

CtorNext == CtorInsert \/ CtorFind \/ CtorRemove \/ UndefinedIndex

SpecCtor == CtorInit /\ [][CtorNext]_vars

(* ------------------- one ELinkedList driven directly ------------------- *)
Elems == 1..MaxElem

mapVars == <<buckets, numElements, hash, smap, op, ret, refRet, trace, i,
             checksum, refChecksum, liveNodes>>

\* ELinkedList(): head is nullptr
ListInit == Construct(1)

ChainInsert == \E value \in Elems :
    /\ Len(chain) < MaxLen
    /\ chain' = ListInsert(chain, value)
    /\ listOp' = [name |-> "insert", arg |-> {value}, ret |-> 0,
                  before |-> chain]
    /\ UNCHANGED <<mapVars, stack>>

ChainFind == \E pred \in SUBSET Elems :
    /\ listOp' = [name |-> "find", arg |-> pred,
                  ret |-> ListFind(chain, pred), before |-> chain]
    /\ UNCHANGED <<mapVars, stack, chain>>

ChainRemove == \E pred \in SUBSET Elems :
    /\ chain' = ListRemove(chain, pred).list
    /\ listOp' = [name |-> "remove", arg |-> pred,
                  ret |-> ListRemove(chain, pred).removed, before |-> chain]
    /\ UNCHANGED <<mapVars, stack>>

ListNext == ChainInsert \/ ChainFind \/ ChainRemove

SpecList == ListInit /\ [][ListNext]_vars

(* ------------- insert and rehash executed statement by statement ------- *)
\* stack holds the activation records of insert and rehash, innermost first.
\* An insert frame is at "check" (the load test) or at "place" (from
\* idx = hashKey(key) to the return); a rehash frame is at "loop" (the test
\* of `while (node)` and the call of insert) or at "next" (the statement
\* after the call) and holds in old the nodes its loops have yet to visit.
InsertFrame(key, value) ==
    [pc |-> "check", key |-> key, value |-> value, old |-> <<>>]

RehashFrame(entries) ==
    [pc |-> "loop", key |-> 0, value |-> 0, old |-> entries]

RehashDepth(frames) ==
    Cardinality({j \in 1..Len(frames) : frames[j].pc \in {"loop", "next"}})

\* `node = node->next` over the nodes still to visit, with a mistaken variant
\* that leaves node where it is
sameNode(old) == old

nextNode(old) == Tail(old)

\* a caller enters emap.insert(key, value)
StepCall == \E key \in Keys, value \in Values :
    /\ stack = <<>>
    /\ Len(buckets) <= MaxBuckets
    /\ stack' = <<InsertFrame(key, value)>>
    /\ op' = [name |-> "insert", key |-> key, value |-> value]
    /\ trace' = [NoTrace EXCEPT !.entryBuckets = Len(buckets),
                                !.entryElements = numElements,
                                !.entryEntries = EntryCount(buckets)]
    /\ UNCHANGED <<buckets, numElements, liveNodes, hash, smap, ret, refRet, i,
                   checksum, refChecksum, chain, listOp>>

\* if ((float)numElements / buckets.size() > maxLoad) rehash(); with the
\* first three statements of rehash()
StepCheck ==
    /\ stack # <<>>
    /\ Head(stack).pc = "check"
    /\ IF loadExceeded(CallState)
       THEN /\ buckets' = rehashEnter(CallState).buckets
            /\ stack' = <<RehashFrame(oldEntries(buckets)),
                          [Head(stack) EXCEPT !.pc = "place"]>> \o Tail(stack)
            /\ trace' = [trace EXCEPT
                             !.rehashCalls = @ + 1,
                             !.maxDepth = Max(@, RehashDepth(stack) + 1)]
       ELSE /\ stack' = <<[Head(stack) EXCEPT !.pc = "place"]>> \o Tail(stack)
            /\ UNCHANGED <<buckets, trace>>
    /\ UNCHANGED <<numElements, liveNodes, hash, smap, op, ret, refRet, i,
                   checksum, refChecksum, chain, listOp>>

\* while (node) { insert(node->value.key, node->value.value); ...
StepLoop ==
    /\ stack # <<>>
    /\ Head(stack).pc = "loop"
    /\ Head(stack).old # <<>>
    /\ stack' = <<InsertFrame(Head(Head(stack).old).key,
                              Head(Head(stack).old).value),
                  [Head(stack) EXCEPT !.pc = "next"]>> \o Tail(stack)
    /\ UNCHANGED <<mapVars, chain, listOp>>

\* ... node = node->next; }
StepAdvance ==
    /\ stack # <<>>
    /\ Head(stack).pc = "next"
    /\ stack' = <<[Head(stack) EXCEPT !.pc = "loop",
                                      !.old = nextNode(@)]>> \o Tail(stack)
    /\ UNCHANGED <<mapVars, chain, listOp>>

\* the loops of rehash() have run off the last chain: rehash() returns
StepRehashReturn ==
    /\ stack # <<>>
    /\ Head(stack).pc = "loop"
    /\ Head(stack).old = <<>>
    /\ stack' = Tail(stack)
    /\ UNCHANGED <<mapVars, chain, listOp>>

\* the rest of insert: idx, find, overwrite or insert and count; return
StepPlace ==
    /\ stack # <<>>
    /\ Head(stack).pc = "place"
    /\ buckets' = insertIn(CallState, Head(stack).key, Head(stack).value).buckets
    /\ numElements' =
           insertIn(CallState, Head(stack).key, Head(stack).value).numElements
    /\ liveNodes' = liveNodes +
           insertIn(CallState, Head(stack).key, Head(stack).value).allocs
    /\ stack' = Tail(stack)
    /\ UNCHANGED <<hash, smap, op, ret, refRet, trace, i, checksum,
                   refChecksum, chain, listOp>>

\* emap.remove(key), between two inserts
StepRemove == \E key \in Keys :
    /\ stack = <<>>
    /\ buckets' = remove(buckets, numElements, key).buckets
    /\ numElements' = remove(buckets, numElements, key).numElements
    /\ liveNodes' = IF remove(buckets, numElements, key).removed
                    THEN liveNodes - 1 ELSE liveNodes
    /\ op' = [name |-> "remove", key |-> key, value |-> 0]
    /\ trace' = NoTrace
    /\ UNCHANGED <<hash, smap, ret, refRet, i, checksum, refChecksum, others>>

StepInternal ==
    StepCheck \/ StepLoop \/ StepAdvance \/ StepRehashReturn \/ StepPlace

StepsNext == StepCall \/ StepRemove \/ StepInternal

\* a call that has been entered keeps executing: the program is sequential
\* and nothing in insert or rehash waits
SpecSteps == Init /\ [][StepsNext]_vars /\ WF_vars(StepInternal)

(* ------------------------------ properties ----------------------------- *)
\* number of stored entries whose key is k
Occurrences(bs, k) ==
    LET all == Flatten(bs)
    IN  Cardinality({j \in 1..Len(all) : all[j].key = k})

\* at least one resize has happened since construction
Resized == Len(buckets) > MaxInitBuckets

\* C1: every key whose most recent insert(k, v) is not followed by a
\* remove(k) is found by find(k), with exactly the value v of that insert,
\* whatever resizes happened in between.  (smap records, per key, the value
\* of the most recent insert not followed by a remove.)
RoundTrip ==
    /\ \A k \in DOMAIN smap :
          find(buckets, k) = [found |-> TRUE, value |-> smap[k]]
    /\ (op.name = "find" /\ op.key \in DOMAIN smap) =>
          (ret.found /\ ret.value = smap[op.key])

\* a find that returned an overwritten value of a key, after a resize and
\* with a second key stored
RoundTripWitness ==
    /\ op.name = "find" /\ ret.found /\ ret.value = MaxValue
    /\ Resized
    /\ Cardinality(DOMAIN smap) >= 2
    /\ \E k \in DOMAIN smap : smap[k] # MaxValue

GrowthCorrect ==
    \A r \in trace.log : r.resumed = r.entered /\ r.newCount > r.oldCount

\* an insert during which rehash() ran nested and moved at least two pairs
GrowthWitness ==
    /\ op.name = "insert"
    /\ trace.maxDepth >= 2
    /\ \E r \in trace.log : Cardinality(DOMAIN r.entered) >= 2

\* C4: between public operations numElements equals the number of entries
\* stored across all chains.
ElementCountExact == numElements = EntryCount(buckets)

NoNestedRehash ==
    op.name = "insert" =>
        /\ trace.maxDepth <= 1
        /\ Len(buckets) \in {trace.entryBuckets, 2 * trace.entryBuckets}

\* C7: insert(k, v2) of a key that is present leaves exactly one entry for k,
\* holding v2, every other entry as it was, and element_count as before the
\* call, also when the call resizes first.
OverwriteKeepsCount ==
    [][(op'.name = "insert" /\ find(buckets, op'.key).found) =>
          /\ Occurrences(buckets', op'.key) = 1
          /\ find(buckets', op'.key) = [found |-> TRUE, value |-> op'.value]
          /\ \A k \in Keys \ {op'.key} :
                /\ Occurrences(buckets', k) = Occurrences(buckets, k)
                /\ find(buckets', k) = find(buckets, k)
          /\ numElements' = numElements]_vars

\* C8: remove(k) returns true exactly when k is present; after it returned
\* true find(k) is absent and a second remove(k) returns false; an absent key
\* stays absent until the next insert of that key.
RemovalStep ==
    /\ op'.name = "remove" =>
          /\ ret'.found = find(buckets, op'.key).found
          /\ ret'.found =>
                /\ ~find(buckets', op'.key).found
                /\ ~remove(buckets', numElements', op'.key).removed
    /\ \A k \in Keys :
          (~find(buckets, k).found /\ ~(op'.name = "insert" /\ op'.key = k)) =>
              ~find(buckets', k).found

Removal == [][RemovalStep]_vars

\* a remove that returned true after a resize, leaving a chain of two
RemovalWitness ==
    /\ op.name = "remove" /\ ret.found
    /\ Resized
    /\ \E b \in 1..Len(buckets) : Len(buckets[b]) >= 2

\* C9: between public operations each key occurs in at most one chain and
\* at most once in it.
KeyUnique == \A k \in Keys : Occurrences(buckets, k) <= 1

\* after a resize, two keys share a chain
KeyUniqueWitness ==
    /\ Resized
    /\ \E b \in 1..Len(buckets) : Len(buckets[b]) >= 2

\* C10: when only inserts are called, after each insert the tracked
\* element_count exceeds the bound by at most one element:
\* (element_count - 1) / bucket_count <= max_load_factor.
TrackedCountWithinOne ==
    op.name = "insert" =>
        MaxLoadDen * (numElements - 1) <= MaxLoadNum * Len(buckets)

\* a chain with the entries of key k taken out
WithoutKey(list, k) ==
    LET Keep(p) == p.key # k IN SelectSeq(list, Keep)

\* C11 (as stated): a public insert resizes before placing its entry exactly
\* when (element_count + 1) / bucket_count > max_load_factor at call entry;
\* otherwise bucket_count is unchanged by the call.
ResizeTriggerProjected ==
    op.name = "insert" =>
        /\ (trace.rehashCalls >= 1) <=>
              (MaxLoadDen * (trace.entryElements + 1) > MaxLoadNum * trace.entryBuckets)
        /\ trace.rehashCalls = 0 => Len(buckets) = trace.entryBuckets

\* C11 (amended): a public insert resizes before placing its entry exactly
\* when element_count / bucket_count > max_load_factor for the tracked count
\* at call entry (the entry being inserted is not counted); otherwise
\* bucket_count is unchanged by the call.
ResizeTriggerCurrent ==
    op.name = "insert" =>
        /\ (trace.rehashCalls >= 1) <=>
              (MaxLoadDen * trace.entryElements > MaxLoadNum * trace.entryBuckets)
        /\ trace.rehashCalls >= 1 => Len(buckets) > trace.entryBuckets
        /\ trace.rehashCalls = 0 => Len(buckets) = trace.entryBuckets

\* an insert that did not resize although the projected ratio exceeded the
\* threshold: the count at entry sat exactly on it
ResizeTriggerWitness ==
    /\ op.name = "insert"
    /\ trace.rehashCalls = 0
    /\ trace.entryElements >= 1
    /\ MaxLoadDen * trace.entryElements = MaxLoadNum * trace.entryBuckets

\* C13: remove(k) of an absent key returns false and changes nothing;
\* remove(k) of a present key returns true, decrements element_count by
\* exactly 1 and deletes only k's entry, every other entry keeping its
\* bucket, order and value; bucket_count never decreases under any operation.
RemoveEffectStep ==
    /\ op'.name = "remove" =>
          IF find(buckets, op'.key).found
          THEN /\ ret'.found
               /\ numElements' = numElements - 1
               /\ EntryCount(buckets') = EntryCount(buckets) - 1
               /\ buckets' = [b \in 1..Len(buckets) |->
                                  WithoutKey(buckets[b], op'.key)]
          ELSE /\ ~ret'.found
               /\ buckets' = buckets
               /\ numElements' = numElements
    /\ Len(buckets') >= Len(buckets)

RemoveEffect == [][RemoveEffectStep]_vars

\* a remove that returned true and left at least two other entries
RemoveEffectWitness ==
    /\ op.name = "remove" /\ ret.found
    /\ EntryCount(buckets) >= 2

\* C14: find(k), for a present or an absent key, leaves bucket_count,
\* element_count and every chain unchanged and never resizes.
FindReadOnly ==
    [][op'.name = "find" =>
          /\ buckets' = buckets
          /\ numElements' = numElements]_vars

\* a find that returned while the load factor was above the threshold, so
\* that an insert in its place would have resized
FindReadOnlyWitness ==
    /\ op.name = "find" /\ ret.found
    /\ MaxLoadDen * numElements > MaxLoadNum * Len(buckets)

\* C18: between public operations every entry stored in the chain of bucket
\* idx satisfies hash(key) mod bucket_count = idx for the current
\* bucket_count.
BucketIndexing ==
    \A b \in 1..Len(buckets) : \A j \in 1..Len(buckets[b]) :
        hash[buckets[b][j].key] % Len(buckets) = b - 1

\* after a nested resize, an entry sits in a bucket other than bucket 0
BucketIndexingWitness ==
    /\ op.name = "insert" /\ trace.maxDepth >= 2
    /\ \E b \in 2..Len(buckets) : buckets[b] # <<>>

\* C19: numElements is at least the number of stored entries in every
\* reachable state, so the decrement of remove() never takes it below zero.
\* (The counter is kept as an integer: a wrap would show as a negative value.)
CounterNoUnderflow ==
    /\ numElements >= EntryCount(buckets)
    /\ numElements >= 0

\* a remove that took the counter down to zero
CounterNoUnderflowWitness ==
    /\ op.name = "remove" /\ ret.found
    /\ numElements = 0

\* C16: between public operations the nodes allocated and not freed are
\* exactly the nodes reachable from the current bucket array (the nodes of a
\* replaced array have been destroyed: nothing leaks).
NoLeakedNode == liveNodes = EntryCount(buckets)

\* C15: a requested size of 0 is rejected at construction, so bucket_count
\* is at least 1 in every reachable state and hash(key) mod bucket_count is
\* defined for every insert, find and remove.
BucketCountPositive ==
    /\ Len(buckets) >= 1
    /\ op.name # "undefined"

\* C17: whatever the chain holds (duplicates included) and whatever the
\* predicate, ELinkedList::remove deletes exactly the first node, in head to
\* tail order, whose value satisfies the predicate, keeps every other node in
\* its original relative order, and returns true iff some node matched; with
\* no match the chain is unchanged.
ChainRemovalStep ==
    listOp'.name = "remove" =>
        LET matches == {j \in 1..Len(chain) : chain[j] \in listOp'.arg}
        IN  IF matches = {}
            THEN listOp'.ret = FALSE /\ chain' = chain
            ELSE /\ listOp'.ret = TRUE
                 /\ Len(chain') = Len(chain) - 1
                 /\ \A p \in 1..Len(chain') :
                        IF \E j \in matches : j <= p
                        THEN chain'[p] = chain[p + 1]
                        ELSE chain'[p] = chain[p]

ChainRemoval == [][ChainRemovalStep]_vars

\* a remove that skipped the head, unlinked the second node and left a later
\* node with a matching value in place
ChainRemovalWitness ==
    /\ listOp.name = "remove"
    /\ listOp.ret = TRUE
    /\ Len(listOp.before) = 3
    /\ listOp.before[1] \notin listOp.arg
    /\ listOp.before[2] \in listOp.arg
    /\ listOp.before[3] \in listOp.arg
    /\ chain = <<listOp.before[1], listOp.before[3]>>

\* C12: every insert call that is entered eventually returns: the recursion
\* insert -> rehash -> insert -> ... is entered finitely often and every
\* rehash loop visits finitely many entries.
InsertReturns == (stack # <<>>) ~> (stack = <<>>)

\* an insert that has returned after a rehash called from within a rehash
InsertReturnsWitness ==
    /\ stack = <<>>
    /\ op.name = "insert"
    /\ trace.maxDepth >= 2
    /\ trace.entryEntries >= 1

====
